---- MODULE Spec2Model ----
(***************************************************************************)
(* Semantic CV Analyzer (src/app.py): one run of main() after the page has *)
(* been loaded.  The run reads the API key, renders the inputs, extracts   *)
(* the text of the uploaded PDF (PDFProcessor.extract_text), configures    *)
(* the model (AIAnalyzer._configure_model), analyses (AIAnalyzer.analyze,  *)
(* which builds AnalysisResult.from_dict of the parsed response) and       *)
(* renders the result (UIRenderer.render_results).                         *)
(*                                                                         *)
(* Python values are tagged records:                                       *)
(*   None / JSON null   [t |-> "null"]                                     *)
(*   bool               [t |-> "bool",  b |-> BOOLEAN]                     *)
(*   int                [t |-> "int",   i |-> Int]                         *)
(*   float              [t |-> "float", tenths |-> Int]   (value tenths/10)*)
(*   float nan          [t |-> "nan"]                                      *)
(*   str                [t |-> "str",   s |-> sequence of characters]      *)
(*   list               [t |-> "list",  items |-> sequence of values]      *)
(*   dict               [t |-> "dict",  map |-> function on its keys]      *)
(* A string is a sequence of one-character strings, so that joining,       *)
(* stripping and int() parsing are computed and not assumed.               *)
(***************************************************************************)
EXTENDS Integers, Sequences, FiniteSets, TLC

VARIABLES
    pc,         \* position of main(): start, inputs, extract, extracted, configure, analyze, render, end, stopped, uncaught
    api_key,    \* main: whether an API key was found (line 231-236)
    jd,         \* main: the job description typed by the user (a str)
    cv,         \* main: the uploaded file, a document or None
    text,       \* main: what extract_text returned (a str or None)
    model,      \* AIAnalyzer.model: "unset", "ok" or "none"
    phase,      \* position of analyze(): NotInvoked, Idle, Prompting, AwaitingGeneration, Parsing, Done, Failed
    prompt,     \* analyze: the prompt, a sequence of segments
    response,   \* analyze: what generate_content produced
    data,       \* analyze: what json.loads returned
    built,      \* analyze: outcome of AnalysisResult.from_dict(data)
    result,     \* main: what analyze returned (an AnalysisResult or None)
    genCalls,   \* number of generate_content calls made by this analyze call
    parseCalls, \* number of json.loads calls made by this analyze call
    messages,   \* what st.error / st.warning displayed, in order
    rendered    \* whether render_results ran to its end

vars == <<pc, api_key, jd, cv, text, model, phase, prompt, response, data,
          built, result, genCalls, parseCalls, messages, rendered>>

----------------------------------------------------------------------------
(* Bounds of the model *)

\* most pages of an uploaded document
MaxPages == 3
\* most entries of a missing_keywords list in a response
MaxKeywords == 2

----------------------------------------------------------------------------
(* Python values *)

None == [t |-> "null"]
PyBool(b) == [t |-> "bool", b |-> b]
PyInt(i) == [t |-> "int", i |-> i]
PyFloat(tenths) == [t |-> "float", tenths |-> tenths]
PyNaN == [t |-> "nan"]
PyStr(s) == [t |-> "str", s |-> s]
PyList(items) == [t |-> "list", items |-> items]
PyDict(map) == [t |-> "dict", map |-> map]

\* Python truthiness of the values main() tests (lines 247, 251, 254)
Truthy(v) ==
    CASE v.t = "null" -> FALSE
      [] v.t = "bool" -> v.b
      [] v.t = "int" -> v.i # 0
      [] v.t = "float" -> v.tenths # 0
      [] v.t = "str" -> v.s # <<>>
      [] v.t = "list" -> v.items # <<>>
      [] v.t = "dict" -> DOMAIN v.map # {}
      [] OTHER -> TRUE

----------------------------------------------------------------------------
(* int(): the conversion from_dict applies to each score (lines 82-85) *)

DigitVal ==
    ("0" :> 0) @@ ("1" :> 1) @@ ("2" :> 2) @@ ("3" :> 3) @@ ("4" :> 4) @@
    ("5" :> 5) @@ ("6" :> 6) @@ ("7" :> 7) @@ ("8" :> 8) @@ ("9" :> 9)

IsDigit(c) == c \in DOMAIN DigitVal

RECURSIVE LStrip(_)
LStrip(s) == IF s # <<>> /\ Head(s) = " " THEN LStrip(Tail(s)) ELSE s

RECURSIVE RStrip(_)
RStrip(s) ==
    IF s # <<>> /\ s[Len(s)] = " " THEN RStrip(SubSeq(s, 1, Len(s) - 1)) ELSE s

Strip(s) == RStrip(LStrip(s))

\* digits with single underscores between them, as int() accepts
WellFormedDigits(s) ==
    /\ s # <<>>
    /\ \A k \in 1..Len(s) : IsDigit(s[k]) \/ s[k] = "_"
    /\ IsDigit(s[1]) /\ IsDigit(s[Len(s)])
    /\ \A k \in 1..(Len(s) - 1) : ~(s[k] = "_" /\ s[k + 1] = "_")

RECURSIVE DigitsValue(_, _)
DigitsValue(s, acc) ==
    IF s = <<>> THEN acc
    ELSE IF Head(s) = "_" THEN DigitsValue(Tail(s), acc)
    ELSE DigitsValue(Tail(s), 10 * acc + DigitVal[Head(s)])

Returned(v) == [ok |-> TRUE, val |-> v]
Raised(e) == [ok |-> FALSE, exc |-> e]

\* int(str): surrounding blanks stripped, an optional sign, then digits
IntOfStr(s) ==
    LET body == Strip(s)
        signed == body # <<>> /\ Head(body) \in {"+", "-"}
        digits == IF signed THEN Tail(body) ELSE body
    IN  IF WellFormedDigits(digits)
        THEN Returned(IF signed /\ Head(body) = "-"
                      THEN 0 - DigitsValue(digits, 0)
                      ELSE DigitsValue(digits, 0))
        ELSE Raised("ValueError")

\* int(float) truncates toward zero
Trunc(tenths) == IF tenths >= 0 THEN tenths \div 10 ELSE 0 - ((0 - tenths) \div 10)

int(v) ==
    CASE v.t = "int" -> Returned(v.i)
      [] v.t = "bool" -> Returned(IF v.b THEN 1 ELSE 0)
      [] v.t = "float" -> Returned(Trunc(v.tenths))
      [] v.t = "nan" -> Raised("ValueError")
      [] v.t = "str" -> IntOfStr(v.s)
      [] OTHER -> Raised("TypeError")

----------------------------------------------------------------------------
(* AnalysisResult.from_dict (lines 79-89) *)

Str_NA == <<"N", "/", "A">>

ScoreKeys ==
    <<"technical_score", "experience_score", "soft_skill_score", "overall_average">>

\* the default each .get names
DefaultScore == PyInt(0)
DefaultKeywords == PyList(<<>>)
DefaultSummary == PyStr(Str_NA)
DefaultQuestion == PyStr(Str_NA)

\* mutation of DictGet: the default is ignored and None returned, as .get(key) does
DictGetNoDefault(d, key, default) == IF key \in DOMAIN d.map THEN d.map[key] ELSE None

\* dict.get(key, default)
DictGet(d, key, default) == IF key \in DOMAIN d.map THEN d.map[key] ELSE default

\* The keyword arguments are evaluated in order; the first int() that raises
\* ends the call.  A value with no .get (a list, a number, a str, None) raises
\* AttributeError at the first data.get.
from_dict(d) ==
    IF d.t # "dict" THEN Raised("AttributeError")
    ELSE
        LET score == [k \in 1..Len(ScoreKeys) |-> int(DictGet(d, ScoreKeys[k], DefaultScore))]
            failing == {k \in 1..Len(ScoreKeys) : ~score[k].ok}
        IN  IF failing # {}
            THEN Raised(score[CHOOSE k \in failing : \A j \in failing : k <= j].exc)
            ELSE Returned([t |-> "AnalysisResult",
                           technical_score |-> score[1].val,
                           experience_score |-> score[2].val,
                           soft_skill_score |-> score[3].val,
                           overall_average |-> score[4].val,
                           missing_keywords |-> DictGet(d, "missing_keywords", DefaultKeywords),
                           candidate_summary |-> DictGet(d, "candidate_summary", DefaultSummary),
                           interview_question |-> DictGet(d, "interview_question", DefaultQuestion)])

----------------------------------------------------------------------------
(* PDFProcessor.extract_text (lines 107-122) *)

MsgNoText == "Could not extract text. PDF might be image-based."
MsgReadError == "Error reading PDF"
MsgConfigError == "Model Configuration Error"
MsgAnalysisFailed == "Analysis failed. Please try again."
MsgKeyMissing == "API Key missing. Please configure secrets.toml"
MsgProvideBoth == "Please provide both Job Description and CV."

\* An uploaded file: whether PyPDF2.PdfReader can read it, and what
\* page.extract_text() does on each of its pages (a text, or an exception).
PdfFile(readable, pages) == [t |-> "file", readable |-> readable, pages |-> pages]

\* mutation of KeepPage: the filter is dropped
KeepEveryPage(txt) == TRUE

\* the filter of the generator: "if page.extract_text()"
KeepPage(txt) == txt # <<>>

\* the separator of the join
PageSeparator == <<" ">>

\* the generator expression: the texts of the pages that have one, in order
RECURSIVE PageTexts(_)
PageTexts(pages) ==
    IF pages = <<>> THEN <<>>
    ELSE IF KeepPage(Head(pages).val) THEN <<Head(pages).val>> \o PageTexts(Tail(pages))
    ELSE PageTexts(Tail(pages))

\* str.join
RECURSIVE Join(_, _)
Join(sep, texts) ==
    IF texts = <<>> THEN <<>>
    ELSE IF Len(texts) = 1 THEN texts[1]
    ELSE texts[1] \o sep \o Join(sep, Tail(texts))

\* mutation of EmptyReturn: the empty text itself is returned
EmptyReturnText == PyStr(<<>>)

\* what the "not text" branch returns (line 116)
EmptyReturn == None

\* The value returned and the messages displayed.  Any exception, of the
\* reader or of a page, is caught (line 119).
extract_text(uploaded_file) ==
    IF ~uploaded_file.readable \/ \E k \in 1..Len(uploaded_file.pages) : ~uploaded_file.pages[k].ok
    THEN [ret |-> None, shown |-> <<MsgReadError>>]
    ELSE
        LET txt == Join(PageSeparator, PageTexts(uploaded_file.pages))
        IN  IF txt = <<>>
            THEN [ret |-> EmptyReturn, shown |-> <<MsgNoText>>]
            ELSE [ret |-> PyStr(txt), shown |-> <<>>]

----------------------------------------------------------------------------
(* AIAnalyzer.analyze (lines 142-174) *)

\* the f-string of lines 145-165: the two inputs between fixed segments
BuildPrompt(job_desc, cv_text) ==
    <<"ROLE/TASK", "JOB DESCRIPTION:", job_desc, "CANDIDATE CV:", cv_text,
      "OUTPUT FORMAT (JSON ONLY)">>

\* mutation of Caught: only a JSON decoding error is caught
CaughtDecodeErrorOnly(exc) == exc = "JSONDecodeError"

\* "except Exception" (line 171) catches every exception the try block raises
Caught(exc) == TRUE

\* mutation of NoModel: the guard is dropped
NoModelNever(m) == FALSE

\* "if not self.model: return None" (line 143)
NoModel(m) == m # "ok"

\* mutation of AfterError: the call is tried again
AfterErrorRetry == "AwaitingGeneration"

\* where the except branch leaves the call (lines 171-174): it returns None
AfterError == "Failed"

\* json.loads(response.text): a response text is represented by what
\* json.loads makes of it, a value or a JSONDecodeError
json_loads(txt) == txt.parsed

----------------------------------------------------------------------------
(* The inputs of a run: what the user supplies and what the service answers *)

RECURSIVE SeqsUpTo(_, _)
SeqsUpTo(S, n) ==
    IF n = 0 THEN {<<>>}
    ELSE LET shorter == SeqsUpTo(S, n - 1)
         IN  shorter \cup {Append(q, x) : q \in {r \in shorter : Len(r) = n - 1}, x \in S}

Str_ab == <<"a", "b">>
Str_c == <<"c">>
Str_Go == <<"G", "o">>
Str_40 == <<"4", "0">>
Str_abc == <<"a", "b", "c">>
Str_pad7 == <<" ", "-", "1", "_", "7", " ">>
Str_70_9 == <<"7", "0", ".", "9">>

\* what page.extract_text() can do on one page
PageOutcomes == {Returned(<<>>), Returned(Str_ab), Returned(Str_c), Raised("PdfReadError")}

UploadedFiles ==
    {PdfFile(FALSE, <<>>)} \cup {PdfFile(TRUE, pages) : pages \in SeqsUpTo(PageOutcomes, MaxPages)}

JobDescriptions == {PyStr(<<>>), PyStr(Str_Go)}

\* values a response may hold under a score key
ScoreValues ==
    {PyInt(0), PyInt(55), PyInt(100), PyInt(150), PyInt(0 - 5),
     PyStr(Str_40), PyStr(Str_abc), PyStr(Str_pad7), PyStr(Str_70_9),
     PyFloat(709), PyFloat(0 - 709), PyNaN, PyBool(TRUE), None, PyList(<<>>)}

KeywordEntries ==
    {PyStr(Str_Go), PyStr(Str_c), PyInt(5), None, PyList(<<>>), PyDict(<<>>)}

KeywordValues ==
    {PyList(items) : items \in SeqsUpTo(KeywordEntries, MaxKeywords)}
        \cup {None, PyInt(5), PyStr(Str_Go)}

TextValues == {PyStr(Str_ab), PyStr(<<>>), PyInt(7), None, PyList(<<>>)}

TextKeys == {"candidate_summary", "interview_question"}

ResultKeys == {ScoreKeys[k] : k \in 1..Len(ScoreKeys)} \cup {"missing_keywords"} \cup TextKeys

ValuesFor(key) ==
    IF key \in TextKeys THEN TextValues
    ELSE IF key = "missing_keywords" THEN KeywordValues
    ELSE ScoreValues

\* a response with every key present and well typed
WellTyped ==
    [technical_score |-> PyInt(55), experience_score |-> PyInt(40),
     soft_skill_score |-> PyInt(70), overall_average |-> PyInt(88),
     missing_keywords |-> PyList(<<PyStr(Str_Go), PyStr(Str_c)>>),
     candidate_summary |-> PyStr(Str_ab), interview_question |-> PyStr(Str_c)]

Restrict(f, S) == [k \in S |-> f[k]]

\* the objects a response may denote: every subset of the well-typed keys,
\* one key set to any value beside no other key or beside all the others,
\* and a key the schema does not know
OneKeySet(base) ==
    UNION {{PyDict((key :> v) @@ base) : v \in ValuesFor(key)} : key \in ResultKeys}

ResponseObjects ==
    {PyDict(Restrict(WellTyped, S)) : S \in SUBSET ResultKeys}
        \cup OneKeySet(<<>>)
        \cup OneKeySet(WellTyped)
        \cup {PyDict(("extra" :> PyInt(1))), PyDict(("extra" :> PyInt(1)) @@ WellTyped)}

\* JSON texts whose top level is not an object
NonObjects == {PyList(<<PyInt(1)>>), PyInt(5), PyStr(Str_Go), None}

ResponseText(parsed) == [t |-> "text", parsed |-> parsed]

\* what generate_content(prompt) followed by response.text can produce
GenerationOutcomes ==
    {Raised("GenerationError"), Returned(ResponseText(Raised("JSONDecodeError")))}
        \cup {Returned(ResponseText(Returned(v))) : v \in ResponseObjects \cup NonObjects}

----------------------------------------------------------------------------
(* main (lines 227-257) and the calls it makes *)

Init ==
    /\ pc = "start"
    /\ api_key = FALSE
    /\ jd = PyStr(<<>>)
    /\ cv = None
    /\ text = None
    /\ model = "unset"
    /\ phase = "NotInvoked"
    /\ prompt = <<>>
    /\ response = None
    /\ data = None
    /\ built = None
    /\ result = None
    /\ genCalls = 0
    /\ parseCalls = 0
    /\ messages = <<>>
    /\ rendered = FALSE

\* lines 231-240: the key is read from the secrets or the environment;
\* without one the run stops
ReadApiKey ==
    /\ pc = "start"
    /\ \E found \in BOOLEAN :
        /\ api_key' = found
        /\ IF found
           THEN pc' = "inputs" /\ UNCHANGED messages
           ELSE pc' = "stopped" /\ messages' = Append(messages, MsgKeyMissing)
    /\ UNCHANGED <<jd, cv, text, model, phase, prompt, response, data, built,
                   result, genCalls, parseCalls, rendered>>

\* "if jd and cv" (line 247)
InputsGate(j, c) == Truthy(j) /\ Truthy(c)

\* lines 242-247 and 256-257: the inputs are rendered and read, the button
\* is tested, then the two inputs
RenderInputs ==
    /\ pc = "inputs"
    /\ \E j \in JobDescriptions, c \in UploadedFiles \cup {None}, pressed \in BOOLEAN :
        /\ jd' = j
        /\ cv' = c
        /\ IF ~pressed THEN pc' = "end" /\ UNCHANGED messages
           ELSE IF InputsGate(j, c) THEN pc' = "extract" /\ UNCHANGED messages
           ELSE pc' = "end" /\ messages' = Append(messages, MsgProvideBoth)
    /\ UNCHANGED <<api_key, text, model, phase, prompt, response, data, built,
                   result, genCalls, parseCalls, rendered>>

\* mutation of TextGate: the test is dropped
TextGateOpen(txt) == TRUE

\* "if text" (line 251)
TextGate(txt) == Truthy(txt)

\* lines 249-250: text = processor.extract_text(cv)
ExtractText ==
    /\ pc = "extract"
    /\ LET out == extract_text(cv)
       IN  /\ text' = out.ret
           /\ messages' = messages \o out.shown
    /\ pc' = "extracted"
    /\ UNCHANGED <<api_key, jd, cv, model, phase, prompt, response, data, built,
                   result, genCalls, parseCalls, rendered>>

\* line 251: the test of the value extract_text returned
TestText ==
    /\ pc = "extracted"
    /\ pc' = IF TextGate(text) THEN "configure" ELSE "end"
    /\ UNCHANGED <<api_key, jd, cv, text, model, phase, prompt, response, data,
                   built, result, genCalls, parseCalls, messages, rendered>>

\* line 252, lines 128-140: AIAnalyzer(api_key); a failure to configure is
\* displayed and leaves model None.  Line 253 then calls analyze.
ConfigureModel ==
    /\ pc = "configure"
    /\ \E configured \in BOOLEAN :
        IF configured
        THEN model' = "ok" /\ UNCHANGED messages
        ELSE model' = "none" /\ messages' = Append(messages, MsgConfigError)
    /\ pc' = "analyze"
    /\ phase' = "Idle"
    /\ UNCHANGED <<api_key, jd, cv, text, prompt, response, data, built,
                   result, genCalls, parseCalls, rendered>>

\* line 143: without a model the call returns None at once
AnalyzeEnter ==
    /\ pc = "analyze" /\ phase = "Idle"
    /\ phase' = IF NoModel(model) THEN "Failed" ELSE "Prompting"
    /\ UNCHANGED <<pc, api_key, jd, cv, text, model, prompt, response, data,
                   built, result, genCalls, parseCalls, messages, rendered>>

\* lines 145-165
Prompting ==
    /\ pc = "analyze" /\ phase = "Prompting"
    /\ prompt' = BuildPrompt(jd, text)
    /\ phase' = "AwaitingGeneration"
    /\ UNCHANGED <<pc, api_key, jd, cv, text, model, response, data, built,
                   result, genCalls, parseCalls, messages, rendered>>

\* lines 171-174 when the exception is caught; otherwise it leaves analyze
\* and main
OnException(exc) ==
    IF Caught(exc)
    THEN /\ phase' = AfterError
         /\ messages' = Append(messages, MsgAnalysisFailed)
         /\ pc' = pc
    ELSE /\ phase' = "Failed"
         /\ pc' = "uncaught"
         /\ UNCHANGED messages

\* line 168: self.model.generate_content(prompt), and response.text
Generate ==
    /\ pc = "analyze" /\ phase = "AwaitingGeneration"
    /\ genCalls' = genCalls + 1
    /\ \E out \in GenerationOutcomes :
        IF out.ok
        THEN /\ response' = out.val
             /\ phase' = "Parsing"
             /\ UNCHANGED <<pc, messages>>
        ELSE /\ OnException(out.exc)
             /\ UNCHANGED response
    /\ UNCHANGED <<api_key, jd, cv, text, model, prompt, data, built, result,
                   parseCalls, rendered>>

\* lines 169-170: json.loads, then from_dict of what it returned
Parse ==
    /\ pc = "analyze" /\ phase = "Parsing"
    /\ parseCalls' = parseCalls + 1
    /\ LET loaded == json_loads(response)
       IN  IF ~loaded.ok
           THEN /\ OnException(loaded.exc)
                /\ UNCHANGED <<data, built, result>>
           ELSE /\ data' = loaded.val
                /\ built' = from_dict(loaded.val)
                /\ IF built'.ok
                   THEN /\ result' = built'.val
                        /\ phase' = "Done"
                        /\ UNCHANGED <<pc, messages>>
                   ELSE /\ OnException(built'.exc)
                        /\ UNCHANGED result
    /\ UNCHANGED <<api_key, jd, cv, text, model, prompt, response, genCalls, rendered>>

\* "if result" (line 254): an AnalysisResult is truthy, None is not
AnalyzeReturn ==
    /\ pc = "analyze" /\ phase \in {"Done", "Failed"}
    /\ pc' = IF Truthy(result) THEN "render" ELSE "end"
    /\ UNCHANGED <<api_key, jd, cv, text, model, phase, prompt, response, data,
                   built, result, genCalls, parseCalls, messages, rendered>>

\* what can be iterated by "for k in res.missing_keywords" (line 216)
Iterable(v) == v.t \in {"list", "str", "dict"}

\* lines 202-220: st.progress refuses a value outside [0.0, 1.0] and the
\* loop a value that cannot be iterated; main catches neither
RenderResults ==
    /\ pc = "render"
    /\ IF result.overall_average \in 0..100 /\ Iterable(result.missing_keywords)
       THEN rendered' = TRUE /\ pc' = "end"
       ELSE rendered' = FALSE /\ pc' = "uncaught"
    /\ UNCHANGED <<api_key, jd, cv, text, model, phase, prompt, response, data,
                   built, result, genCalls, parseCalls, messages>>

Next ==
    \/ ReadApiKey
    \/ RenderInputs
    \/ ExtractText
    \/ TestText
    \/ ConfigureModel
    \/ AnalyzeEnter
    \/ Prompting
    \/ Generate
    \/ Parse
    \/ AnalyzeReturn
    \/ RenderResults

Spec == Init /\ [][Next]_vars

\* the steps of one analyze call
AnalyzeStep == AnalyzeEnter \/ Prompting \/ Generate \/ Parse

\* analyze is sequential code: a call that is under way takes its next step,
\* and the generation call returns or fails
FairSpec == Spec /\ WF_vars(AnalyzeStep)

----------------------------------------------------------------------------
(* Properties of AnalysisResult.from_dict *)

FromDictCalled == "ok" \in DOMAIN built

ScoreFields == {ScoreKeys[k] : k \in 1..Len(ScoreKeys)}

IsStr(v) == v.t = "str"

\* C1: for every mapping, from_dict never fails and each of the four scores
\* of the constructed result is an integer in [0,100].
C1_TotalAndInRange ==
    (FromDictCalled /\ data.t = "dict") =>
        /\ built.ok
        /\ \A key \in ScoreFields : built.val[key] \in 0..100

\* C5: when missing_keywords of the parsed response is a list, the result's
\* missing_keywords is exactly the string entries of that list, in order.
C5_NonStringsDropped ==
    (/\ FromDictCalled /\ built.ok /\ data.t = "dict"
     /\ "missing_keywords" \in DOMAIN data.map
     /\ data.map["missing_keywords"].t = "list") =>
        built.val.missing_keywords =
            PyList(SelectSeq(data.map["missing_keywords"].items, IsStr))

----------------------------------------------------------------------------
(* Properties of AIAnalyzer.analyze *)

Terminal == {"Done", "Failed"}

GenerationFailed == genCalls > 0 /\ response.t # "text"
NotJson == response.t = "text" /\ ~response.parsed.ok
NotAnObject == response.t = "text" /\ response.parsed.ok /\ response.parsed.val.t # "dict"
ParsedObject == response.t = "text" /\ response.parsed.ok /\ response.parsed.val.t = "dict"

\* C2: every call of analyze invokes the generation capability exactly
\* once, whatever the outcome: never zero times, never more than once.
C2_ExactlyOnce ==
    /\ genCalls <= 1
    /\ phase \in Terminal => genCalls = 1

\* C2 as amended: a call on a configured model invokes the generation
\* capability exactly once whatever the outcome; a call with no configured
\* model returns no result and invokes it zero times; never more than once.
C2_OnceIfConfigured ==
    /\ genCalls <= 1
    /\ phase \in Terminal => genCalls = (IF model = "ok" THEN 1 ELSE 0)
    /\ (phase \in Terminal /\ model # "ok") => result = None

\* C2 witness: a call on a configured model that ended in a parse failure
C2_Witness ==
    phase = "Failed" /\ model = "ok" /\ NotJson /\ genCalls = 1 /\ parseCalls = 1

\* C3: when the generation call fails, or its text is not JSON, or is JSON
\* whose top level is not an object, analyze returns no result, nothing
\* propagates to the caller, and the text is parsed at most once.
C3_FailuresReturned ==
    /\ parseCalls <= 1
    /\ (phase \in Terminal /\ (GenerationFailed \/ NotJson \/ NotAnObject)) =>
        /\ phase = "Failed"
        /\ result = None
        /\ pc # "uncaught"
        /\ GenerationFailed => parseCalls = 0

\* C3 witness: analyze has returned after a response that is a JSON array
C3_Witness ==
    /\ pc = "end" /\ phase = "Failed" /\ NotAnObject
    /\ response.parsed.val.t = "list" /\ parseCalls = 1

\* C4: whenever the response parses as a JSON object, analyze ends in Done
\* with a result, whatever the object holds.
C4_ObjectAlwaysDone ==
    (phase \in Terminal /\ ParsedObject) => (phase = "Done" /\ Truthy(result))

Rank(ph) ==
    CASE ph = "NotInvoked" -> 0
      [] ph = "Idle" -> 1
      [] ph = "Prompting" -> 2
      [] ph = "AwaitingGeneration" -> 3
      [] ph = "Parsing" -> 4
      [] OTHER -> 5

ChainEdges ==
    {<<"NotInvoked", "Idle">>, <<"Idle", "Prompting">>,
     <<"Prompting", "AwaitingGeneration">>, <<"AwaitingGeneration", "Parsing">>,
     <<"Parsing", "Done">>, <<"Parsing", "Failed">>}

\* C9: each invocation moves through Idle, Prompting, AwaitingGeneration,
\* Parsing in that order and then reaches exactly one of Done (with a
\* result) and Failed; no transition leads back or leaves a terminal state.
C9_FullChain ==
    /\ [][phase' # phase => <<phase, phase'>> \in ChainEdges]_vars
    /\ [](phase = "Done" => Truthy(result))
    /\ [](phase = "Failed" => result = None)
    /\ (phase = "Idle") ~> (phase \in Terminal)

\* C9 as amended: each invocation moves forward only through Idle,
\* Prompting, AwaitingGeneration, Parsing and eventually reaches exactly one
\* of Done (with a result) and Failed (with none); with no configured model
\* it goes from Idle straight to Failed, and a failed generation call goes
\* from AwaitingGeneration straight to Failed; no transition leads back or
\* leaves a terminal state.
C9_ForwardOnly ==
    /\ [][phase' # phase =>
            \/ <<phase, phase'>> \in ChainEdges
            \/ phase = "Idle" /\ phase' = "Failed" /\ model # "ok"
            \/ phase = "AwaitingGeneration" /\ phase' = "Failed" /\ parseCalls' = 0]_vars
    /\ [][Rank(phase') >= Rank(phase) /\ (phase \in Terminal => phase' = phase)]_vars
    /\ [](phase = "Done" => Truthy(result))
    /\ [](phase = "Failed" => result = None)
    /\ (phase = "Idle") ~> (phase \in Terminal)

\* C9 witness: an invocation that failed in the generation call, never parsing
C9_Witness ==
    phase = "Failed" /\ model = "ok" /\ GenerationFailed /\ parseCalls = 0

----------------------------------------------------------------------------
(* Properties of PDFProcessor.extract_text *)

\* the bytes cannot be read as a document, as a whole or at some page
Malformed(f) == ~f.readable \/ \E k \in 1..Len(f.pages) : ~f.pages[k].ok

\* a document that can be read and whose pages yield no text
EmptyContent(f) == ~Malformed(f) /\ \A k \in 1..Len(f.pages) : f.pages[k].val = <<>>

LastMessage == IF messages = <<>> THEN "" ELSE messages[Len(messages)]

TextPages(f) == SelectSeq(f.pages, LAMBDA p : p.val # <<>>)

RECURSIVE TotalLen(_)
TotalLen(ps) == IF ps = <<>> THEN 0 ELSE Len(Head(ps).val) + TotalLen(Tail(ps))

\* where the k-th text starts in the joined string, less one
Offset(ps, k) == TotalLen(SubSeq(ps, 1, k - 1)) + (k - 1)

\* C8: a string returned by extraction holds the texts of the pages that
\* have one, in document order, with exactly one space between consecutive
\* texts and nothing before the first or after the last; it is not empty.
C8_JoinedInOrder ==
    (pc = "extracted" /\ text # None) =>
        LET ps == TextPages(cv)
        IN  /\ ~Malformed(cv)
            /\ text.t = "str" /\ text.s # <<>>
            /\ ps # <<>>
            /\ Len(text.s) = TotalLen(ps) + (Len(ps) - 1)
            /\ \A k \in 1..Len(ps) :
                /\ SubSeq(text.s, Offset(ps, k) + 1, Offset(ps, k) + Len(ps[k].val)) = ps[k].val
                /\ k < Len(ps) => text.s[Offset(ps, k) + Len(ps[k].val) + 1] = " "

\* C8 witness: extraction has returned a string for a document whose middle
\* page has no text
C8_Witness ==
    /\ pc = "extracted" /\ text # None
    /\ Len(cv.pages) = 3 /\ cv.pages[2].val = <<>>
    /\ cv.pages[1].val # <<>> /\ cv.pages[3].val # <<>> /\ cv.pages[1] # cv.pages[3]

----------------------------------------------------------------------------
(* Properties of main *)

\* C10: the generation capability is invoked only with a non-empty job
\* description, a supplied document and a non-empty extracted text; results
\* are rendered only when analyze returned a result; after an extraction
\* failure nothing is generated and nothing is rendered.
C10_StagesGated ==
    /\ (phase # "NotInvoked" \/ genCalls > 0) =>
            /\ Truthy(jd) /\ cv # None
            /\ Truthy(text) /\ text = extract_text(cv).ret
    /\ (pc = "render" \/ rendered) => (result # None /\ phase = "Done")
    /\ (pc \in {"end", "uncaught"} /\ text = None) =>
            genCalls = 0 /\ ~rendered /\ phase = "NotInvoked" /\ model = "unset"

\* C10 witness: the run has ended after extraction failed
C10_Witness ==
    /\ pc = "end" /\ cv # None /\ Truthy(jd)
    /\ LastMessage \in {MsgNoText, MsgReadError}
    /\ genCalls = 0 /\ ~rendered

====
